---------------------------- MODULE Spec2Model ----------------------------
(***************************************************************************)
(* A model of a4crypt.py: the GpgInterface class (engine discovery and     *)
(* launch_gpg) and the AFourCrypt interactive shell that drives it.        *)
(*                                                                         *)
(* Python strings are sequences of one-character strings, so that string   *)
(* formatting, slicing (cmd[:-2]) and shlex.split are computed character   *)
(* by character.  Python's None is the one-element sequence <<"None">>,    *)
(* which is no string of characters.                                       *)
(*                                                                         *)
(* Environment assumptions: the set of engine binaries that can be started *)
(* does not change during a run; pipe(), close() and Popen.communicate()   *)
(* do not fail; no signal interrupts the program.  A pipe holds at most    *)
(* PipeCapacity characters (65536 bytes on Linux, scaled down here), and a *)
(* write to a full pipe blocks until a reader has made room.               *)
(***************************************************************************)
EXTENDS Integers, Sequences, FiniteSets, TLC

VARIABLES
    installed,    \* environment: the engine binaries that can be started
    open_fds,     \* descriptors open in this process
    pipebuf,      \* what the passphrase pipe holds, while the pipe exists
    spawned,      \* number of engine subprocesses started by launch_gpg
    P,            \* the subprocess of the current launch_gpg call, or None
    sys_stderr,   \* what was written to sys.stderr since the program, or the
                  \* current launch_gpg call, began, oldest first
    tried,        \* binaries GpgInterface.__init__ tried to start, in order
    self,         \* GpgInterface attributes: gpg, inputdata, stdout, stderr
    call,         \* launch_gpg's frame: position, arguments and locals
    ncalls,       \* number of launch_gpg calls begun
    a4            \* AFourCrypt and the __main__ loop: position and locals

vars == <<installed, open_fds, pipebuf, spawned, P, sys_stderr, tried, self, call, ncalls, a4>>

(***************************************************************************)
(* Bounds of the model.                                                    *)
(***************************************************************************)
MaxCalls == 2       \* launch_gpg calls made by the direct caller
MaxRounds == 2      \* iterations of the __main__ loop (calls of load_main)
MaxLines == 2       \* lines typed into one get_multiline_input
MaxRetries == 2     \* 'y' answers to the retry prompt in one load_main

(***************************************************************************)
(* Python values.                                                          *)
(***************************************************************************)
None == <<"None">>

Truthy(x) == x # None /\ x # <<>>

\* str.format of a small non-negative integer
Digit(d) == <<"0", "1", "2", "3", "4", "5", "6", "7", "8", "9">>[d + 1]

RECURSIVE Str(_)
Str(n) == IF n < 10 THEN <<Digit(n)>> ELSE Str(n \div 10) \o <<Digit(n % 10)>>

\* "\n".join(lines)
RECURSIVE Join(_)
Join(lines) ==
    IF Len(lines) = 0 THEN <<>>
    ELSE IF Len(lines) = 1 THEN lines[1]
    ELSE lines[1] \o <<"\n">> \o Join(Tail(lines))

(***************************************************************************)
(* The string literals of GpgInterface.                                    *)
(***************************************************************************)
GPG_PRIMARY == <<"g", "p", "g", " ", "-", "-", "n", "o", "-", "u", "s", "e", "-", "a", "g", "e", "n", "t">>
GPG_FALLBACK == <<"g", "p", "g", "2">>
EN_HEAD == <<" ", "-", "-", "b", "a", "t", "c", "h", " ", "-", "-", "n", "o", "-", "t", "t", "y", " ", "-", "-", "y", "e", "s", " ", "-", "-", "s", "y", "m", "m", "e", "t", "r", "i", "c", " ", "-", "-", "f", "o", "r", "c", "e", "-", "m", "d", "c", " ", "-", "-", "c", "i", "p", "h", "e", "r", "-", "a", "l", "g", "o", " ">>
EN_PASSFD == <<" ", "-", "-", "p", "a", "s", "s", "p", "h", "r", "a", "s", "e", "-", "f", "d", " ">>
EN_ARMOR == <<" ", "-", "a">>
DE_HEAD == <<" ", "-", "-", "b", "a", "t", "c", "h", " ", "-", "-", "n", "o", "-", "t", "t", "y", " ", "-", "-", "y", "e", "s", " ", "-", "d", " ", "-", "-", "p", "a", "s", "s", "p", "h", "r", "a", "s", "e", "-", "f", "d", " ">>
DASH_O == <<" ", "-", "o", " ">>
aes256 == <<"a", "e", "s", "2", "5", "6">>

(***************************************************************************)
(* shlex.split(cmd): shlex in POSIX mode with whitespace_split and no      *)
(* commenters.  The lexer state is " " (between tokens), "a" (in a word),  *)
(* a quote character (inside that quote) or "\\" (after an escape), as in  *)
(* shlex.read_token.  The result is <<"ok", tokens>> or <<"ValueError">>.  *)
(* The input is read in halves so that the evaluation does not nest once   *)
(* per character.                                                          *)
(***************************************************************************)
Whitespace == {" ", "\t", "\r", "\n"}
Quotes == {"'", "\""}
Escape == {"\\"}
EscapedQuotes == {"\""}

LexStart == [state |-> " ", token |-> <<>>, quoted |-> FALSE,
             escapedstate |-> "a", tokens |-> <<>>]

\* the token being read is complete (read_token returns it when it is not
\* empty or was quoted)
Emit(lx) == IF lx.token # <<>> \/ lx.quoted THEN Append(lx.tokens, lx.token)
            ELSE lx.tokens

\* one character c read by the lexer lx
LexChar(lx, c) ==
    IF lx.state = " " THEN
        IF c \in Whitespace THEN lx
        ELSE IF c \in Escape THEN [lx EXCEPT !.escapedstate = "a", !.state = c]
        ELSE IF c \in Quotes THEN [lx EXCEPT !.state = c]
        ELSE [lx EXCEPT !.token = <<c>>, !.state = "a"]
    ELSE IF lx.state \in Quotes THEN
        IF c = lx.state THEN [lx EXCEPT !.quoted = TRUE, !.state = "a"]
        ELSE IF c \in Escape /\ lx.state \in EscapedQuotes
        THEN [lx EXCEPT !.quoted = TRUE, !.escapedstate = lx.state, !.state = c]
        ELSE [lx EXCEPT !.quoted = TRUE, !.token = Append(lx.token, c)]
    ELSE IF lx.state \in Escape THEN
        LET kept == IF lx.escapedstate \in Quotes /\ c # lx.state /\ c # lx.escapedstate
                    THEN Append(lx.token, lx.state) ELSE lx.token
        IN [lx EXCEPT !.token = Append(kept, c), !.state = lx.escapedstate]
    ELSE \* lx.state = "a"
        IF c \in Whitespace
        THEN [lx EXCEPT !.tokens = Emit(lx), !.token = <<>>, !.quoted = FALSE, !.state = " "]
        ELSE IF c \in Quotes THEN [lx EXCEPT !.state = c]
        ELSE IF c \in Escape THEN [lx EXCEPT !.escapedstate = "a", !.state = c]
        ELSE [lx EXCEPT !.token = Append(lx.token, c)]

\* the characters s[lo..hi] read in order, starting from lx.  Each lexer
\* state is taken as the one element of a set, which has it computed once,
\* before the characters after it are read.
RECURSIVE Lex(_, _, _, _)
Lex(s, lo, hi, lx) ==
    IF lo > hi THEN lx
    ELSE IF lo = hi THEN CHOOSE r \in {LexChar(l, s[lo]) : l \in {lx}} : TRUE
    ELSE LET mid == (lo + hi) \div 2
         IN CHOOSE r \in {Lex(s, mid + 1, hi, left) :
                             left \in {Lex(s, lo, mid, lx)}} : TRUE

\* end of input: an open quote or escape raises ValueError
split(s) ==
    LET lx == Lex(s, 1, Len(s), LexStart) IN
    IF lx.state \in Quotes \/ lx.state \in Escape THEN <<"ValueError">>
    ELSE IF lx.state = "a" THEN <<"ok", Emit(lx)>>
    ELSE <<"ok", lx.tokens>>

(***************************************************************************)
(* GpgInterface.__init__: engine discovery.  Popen raises OSError for a    *)
(* binary that cannot be started; the bare except then tries gpg2, and     *)
(* re-raises when that cannot be started either.                           *)
(***************************************************************************)
Binaries == {"gpg", "gpg2"}

\* a variant that tries gpg2 before gpg
DiscoverFallbackFirst(inst) ==
    IF "gpg2" \in inst
    THEN [tried |-> <<"gpg2">>, gpg |-> GPG_FALLBACK, raised |-> FALSE]
    ELSE IF "gpg" \in inst
    THEN [tried |-> <<"gpg2", "gpg">>, gpg |-> GPG_PRIMARY, raised |-> FALSE]
    ELSE [tried |-> <<"gpg2", "gpg">>, gpg |-> None, raised |-> TRUE]

Discover(inst) ==
    IF "gpg" \in inst
    THEN [tried |-> <<"gpg">>, gpg |-> GPG_PRIMARY, raised |-> FALSE]
    ELSE IF "gpg2" \in inst
    THEN [tried |-> <<"gpg", "gpg2">>, gpg |-> GPG_FALLBACK, raised |-> FALSE]
    ELSE [tried |-> <<"gpg", "gpg2">>, gpg |-> None, raised |-> TRUE]

NotFoundMsg == <<"This program requires either gpg or gpg2, neither of which were found on your system.\n\n">>
gpgvers == <<"gpg (GnuPG) version text\n">>

\* sys.stderr after __init__ ran with the discovery result d
InitStderr(d, show_version) ==
    IF d.raised THEN Append(sys_stderr, NotFoundMsg)
    ELSE IF show_version THEN Append(sys_stderr, gpgvers)
    ELSE sys_stderr

NoSelf == [gpg |-> None, inputdata |-> None, stdout |-> None, stderr |-> None]

\* the attributes set by __init__ (none when it raised)
InitSelf(d) == IF d.raised THEN NoSelf ELSE [NoSelf EXCEPT !.gpg = d.gpg]

(***************************************************************************)
(* launch_gpg: the sanity checks, in the order of the code.  The result is *)
(* the text of the exception raised, or "ok".                              *)
(***************************************************************************)
BadMode == "Bad mode chosen"
MissingOutFile == "Missing out_file"
SameFile == "in_file, out_file must be different"
MissingInput == "Missing input"
BadBinarymode == "Bad binarymode chosen"
BadRequest == {BadMode, MissingOutFile, SameFile, MissingInput, BadBinarymode}

\* a variant without the check that input and output file differ
SanityCheckNoSameFile(mode, in_file, out_file, binarymode, inputdata) ==
    IF mode \notin {"en", "de"} THEN BadMode
    ELSE IF Truthy(in_file) /\ ~Truthy(out_file) THEN MissingOutFile
    ELSE IF ~Truthy(in_file) /\ ~Truthy(inputdata) THEN MissingInput
    ELSE IF binarymode \notin {"True", "False"} THEN BadBinarymode
    ELSE "ok"

SanityCheck(mode, in_file, out_file, binarymode, inputdata) ==
    IF mode \notin {"en", "de"} THEN BadMode
    ELSE IF Truthy(in_file) /\ ~Truthy(out_file) THEN MissingOutFile
    ELSE IF Truthy(in_file) /\ in_file = out_file THEN SameFile
    ELSE IF ~Truthy(in_file) /\ ~Truthy(inputdata) THEN MissingInput
    ELSE IF binarymode \notin {"True", "False"} THEN BadBinarymode
    ELSE "ok"

\* what the failed check writes to sys.stderr before raising
SanityMsg(e, in_file) ==
    IF e = BadMode THEN <<"Improper mode specified! Must be one of 'en' or 'de'.\n">>
    ELSE IF e = MissingOutFile
    THEN <<"You specified ">> \o in_file \o <<" as an input file but you didn't specify an output file.\n">>
    ELSE IF e = SameFile
    THEN <<"Same file for both input and output, eh? Is it going to work? NOPE. Chuck Testa.\n">>
    ELSE IF e = MissingInput
    THEN <<"You need to save input to class attr 'inputdata' first. Or specify an input file.\n">>
    ELSE <<"Improper binarymode value specified! Must be either True or False (default: False).\n">>

(***************************************************************************)
(* launch_gpg: os.pipe() returns the two lowest descriptors not in use.    *)
(***************************************************************************)
LowestFree(used) == CHOOSE n \in 0..(Cardinality(used) + 1) :
                        n \notin used /\ \A m \in 0..(n - 1) : m \in used

pipe(used) == LET r == LowestFree(used)
              IN <<r, LowestFree(used \cup {r})>>

\* the number of characters the pipe holds before a write to it blocks
PipeCapacity == 6

\* a variant of the pipe that holds any number of characters
FitsAlways(buf, data) == TRUE

\* write(fd, data) completes without a reader when the pipe has room for data
Fits(buf, data) == Len(buf) + Len(data) <= PipeCapacity

(***************************************************************************)
(* launch_gpg: the command string, built with str.format from the engine   *)
(* recorded by __init__, the cipher, the read descriptor and the paths.    *)
(* The parameters are those of launch_gpg, with self.gpg and fd_in.        *)
(***************************************************************************)
WithFiles(cmd, in_file, out_file) == cmd \o DASH_O \o out_file \o <<" ">> \o in_file

\* a variant that also hands the passphrase over as an argument
CmdPassphraseArg(gpg, mode, passphrase, in_file, out_file, binarymode, cipher, fd_in) ==
    LET opt == <<" ", "-", "-", "p", "a", "s", "s", "p", "h", "r", "a", "s", "e", " ">> \o passphrase IN
    IF mode = "en" THEN
        LET general == gpg \o EN_HEAD \o cipher \o EN_PASSFD \o Str(fd_in) \o opt \o EN_ARMOR IN
        IF Truthy(in_file) THEN
            LET c == IF binarymode = "True"
                     THEN SubSeq(general, 1, Len(general) - 2)
                     ELSE general
            IN WithFiles(c, in_file, out_file)
        ELSE general
    ELSE
        LET general == gpg \o DE_HEAD \o Str(fd_in) \o opt IN
        IF Truthy(in_file) THEN WithFiles(general, in_file, out_file) ELSE general

Cmd(gpg, mode, passphrase, in_file, out_file, binarymode, cipher, fd_in) ==
    IF mode = "en" THEN
        LET general == gpg \o EN_HEAD \o cipher \o EN_PASSFD \o Str(fd_in) \o EN_ARMOR IN
        IF Truthy(in_file) THEN
            LET c == IF binarymode = "True"
                     THEN SubSeq(general, 1, Len(general) - 2)
                     ELSE general
            IN WithFiles(c, in_file, out_file)
        ELSE general
    ELSE
        LET general == gpg \o DE_HEAD \o Str(fd_in) IN
        IF Truthy(in_file) THEN WithFiles(general, in_file, out_file) ELSE general

\* a variant that takes every exit code but 1 for success
RetvalNotOne(returncode) == returncode # 1

\* retval, set from P.returncode
Retval(returncode) == returncode = 0

\* a variant that writes the engine's stderr only after a failure
WriteStderrOnFailure(stream, retval, err) ==
    IF retval THEN stream ELSE Append(stream, err)

\* stderr.write(self.stderr) at the end of launch_gpg
WriteStderr(stream, retval, err) == Append(stream, err)

(***************************************************************************)
(* The engine is external: it exits with some code and some output.        *)
(***************************************************************************)
EngineOutcomes ==
    { [returncode |-> 0, out |-> <<"o", "u", "t">>, err |-> <<>>],
      [returncode |-> 0, out |-> <<"o", "u", "t">>, err |-> <<"w", "a", "r", "n">>],
      [returncode |-> 2, out |-> <<>>, err |-> <<"f", "a", "i", "l">>] }

NoProc == [started |-> FALSE, argv |-> <<>>, stdin |-> None, fds |-> {},
           pass |-> None, exited |-> FALSE, returncode |-> -1,
           out |-> None, err |-> None]

IdleCall == [pc |-> "idle", mode |-> "", passphrase |-> None, in_file |-> None,
             out_file |-> None, binarymode |-> "False", cipher |-> None,
             fd_in |-> -1, fd_out |-> -1, cmd |-> None, retval |-> FALSE,
             exc |-> "", fds0 |-> {}, spawned0 |-> 0]

\* the frame of a call that has just been entered; fds0 and spawned0 remember
\* the open descriptors and the subprocess count at entry
NewCall(mode, passphrase, in_file, out_file, binarymode, cipher) ==
    [IdleCall EXCEPT !.pc = "validate", !.mode = mode, !.passphrase = passphrase,
                     !.in_file = in_file, !.out_file = out_file,
                     !.binarymode = binarymode, !.cipher = cipher,
                     !.fds0 = open_fds, !.spawned0 = spawned]

LaunchValidate ==
    /\ call.pc = "validate"
    /\ LET e == SanityCheck(call.mode, call.in_file, call.out_file,
                            call.binarymode, self.inputdata) IN
       IF e # "ok"
       THEN /\ sys_stderr' = Append(sys_stderr, SanityMsg(e, call.in_file))
            /\ call' = [call EXCEPT !.pc = "raised", !.exc = e]
       ELSE /\ call' = [call EXCEPT !.pc = "pipe"]
            /\ UNCHANGED sys_stderr
    /\ UNCHANGED <<installed, open_fds, pipebuf, spawned, P, tried, self, ncalls, a4>>

LaunchPipe ==
    /\ call.pc = "pipe"
    /\ LET fds == pipe(open_fds) IN
       /\ call' = [call EXCEPT !.pc = "write", !.fd_in = fds[1], !.fd_out = fds[2]]
       /\ open_fds' = open_fds \cup {fds[1], fds[2]}
    /\ pipebuf' = <<>>
    /\ UNCHANGED <<installed, spawned, P, sys_stderr, tried, self, ncalls, a4>>

\* a variant that leaves the write end open
LaunchWriteNoClose ==
    /\ call.pc = "write"
    /\ pipebuf' = pipebuf \o call.passphrase
    /\ call' = [call EXCEPT !.pc = "cmd"]
    /\ UNCHANGED <<installed, open_fds, spawned, P, sys_stderr, tried, self, ncalls, a4>>

\* write(fd_out, passphrase) ; close(fd_out).  This process holds the only
\* read end and reads nothing from it, so a write that finds no room fills
\* the pipe and then blocks for good, with both ends open.
LaunchWrite ==
    /\ call.pc = "write"
    /\ IF Fits(pipebuf, call.passphrase)
       THEN /\ pipebuf' = pipebuf \o call.passphrase
            /\ open_fds' = open_fds \ {call.fd_out}
            /\ call' = [call EXCEPT !.pc = "cmd"]
       ELSE /\ pipebuf' = SubSeq(pipebuf \o call.passphrase, 1, PipeCapacity)
            /\ open_fds' = open_fds
            /\ call' = [call EXCEPT !.pc = "blocked"]
    /\ UNCHANGED <<installed, spawned, P, sys_stderr, tried, self, ncalls, a4>>

LaunchCmd ==
    /\ call.pc = "cmd"
    /\ call' = [call EXCEPT !.pc = "popen",
                            !.cmd = Cmd(self.gpg, call.mode, call.passphrase,
                                        call.in_file, call.out_file,
                                        call.binarymode, call.cipher, call.fd_in)]
    /\ UNCHANGED <<installed, open_fds, pipebuf, spawned, P, sys_stderr, tried, self, ncalls, a4>>

\* P = Popen(split(cmd), ...): split raises ValueError on an unclosed quote;
\* the child inherits the open descriptors (close_fds is False)
LaunchPopen ==
    /\ call.pc = "popen"
    /\ LET r == split(call.cmd) IN
       IF r[1] # "ok"
       THEN /\ call' = [call EXCEPT !.pc = "raised", !.exc = "No closing quotation"]
            /\ UNCHANGED <<P, spawned>>
       ELSE /\ P' = [NoProc EXCEPT !.started = TRUE, !.argv = r[2],
                                   !.fds = open_fds, !.pass = pipebuf]
            /\ spawned' = spawned + 1
            /\ call' = [call EXCEPT !.pc = "communicate"]
    /\ UNCHANGED <<installed, open_fds, pipebuf, sys_stderr, tried, self, ncalls, a4>>

\* self.stdout, self.stderr = P.communicate(input=self.inputdata): the input
\* reaches the engine only when a stdin pipe was attached (no in_file)
LaunchCommunicate ==
    /\ call.pc = "communicate"
    /\ \E o \in EngineOutcomes :
        /\ P' = [P EXCEPT !.exited = TRUE, !.returncode = o.returncode,
                          !.out = o.out, !.err = o.err,
                          !.stdin = IF Truthy(call.in_file) THEN None
                                    ELSE self.inputdata]
        /\ self' = [self EXCEPT !.stdout = o.out, !.stderr = o.err]
    /\ call' = [call EXCEPT !.pc = "finish"]
    /\ UNCHANGED <<installed, open_fds, pipebuf, spawned, sys_stderr, tried, ncalls, a4>>

\* retval from P.returncode; close(fd_in), the last end of the pipe, which
\* is gone with it; stderr.write(self.stderr); return
LaunchFinish ==
    /\ call.pc = "finish"
    /\ LET retval == Retval(P.returncode) IN
       /\ call' = [call EXCEPT !.pc = "returned", !.retval = retval]
       /\ sys_stderr' = WriteStderr(sys_stderr, retval, self.stderr)
    /\ open_fds' = open_fds \ {call.fd_in}
    /\ pipebuf' = <<>>
    /\ UNCHANGED <<installed, spawned, P, tried, self, ncalls, a4>>

Launch ==
    \/ LaunchValidate
    \/ LaunchPipe
    \/ LaunchWrite
    \/ LaunchCmd
    \/ LaunchPopen
    \/ LaunchCommunicate
    \/ LaunchFinish

(***************************************************************************)
(* A program that uses GpgInterface directly: it constructs the interface, *)
(* then repeatedly saves some input to inputdata and calls launch_gpg with *)
(* arguments of its choice, catching what the call raises.                 *)
(***************************************************************************)
Modes == {"en", "de", "xx"}
LongPassphrase == [i \in 1..(PipeCapacity + 1) |-> "z"]
Passphrases == {<<"p", "w">>, aes256, LongPassphrase}
Ciphers == {aes256, <<"x", " ", "y">>, <<"'">>}
InPaths == {None, <<"i">>}
OutPaths == {None, <<"i">>, <<"o">>, <<"'", "o">>}
BinaryModes == {"True", "False", "None"}
InputDatas == {None, <<>>, <<"m", "s", "g">>}

StdFds == {0, 1, 2}

NoShell == [pc |-> "none"]

InitApi ==
    /\ installed \in SUBSET Binaries
    /\ open_fds = StdFds
    /\ pipebuf = <<>>
    /\ spawned = 0
    /\ P = NoProc
    /\ sys_stderr = <<>>
    /\ tried = <<>>
    /\ self = NoSelf
    /\ call = IdleCall
    /\ ncalls = 0
    /\ a4 = NoShell

\* GpgInterface(show_version)
ApiConstruct ==
    /\ tried = <<>>
    /\ \E show_version \in BOOLEAN :
        LET d == Discover(installed) IN
        /\ tried' = d.tried
        /\ self' = InitSelf(d)
        /\ sys_stderr' = InitStderr(d, show_version)
    /\ UNCHANGED <<installed, open_fds, pipebuf, spawned, P, call, ncalls, a4>>

ApiCall ==
    /\ self.gpg # None
    /\ call.pc = "idle"
    /\ ncalls < MaxCalls
    /\ \E inputdata \in InputDatas, mode \in Modes, passphrase \in Passphrases,
          in_file \in InPaths, out_file \in OutPaths, binarymode \in BinaryModes,
          cipher \in Ciphers :
        /\ self' = [self EXCEPT !.inputdata = inputdata]
        /\ call' = NewCall(mode, passphrase, in_file, out_file, binarymode, cipher)
    /\ ncalls' = ncalls + 1
    /\ sys_stderr' = <<>>
    /\ UNCHANGED <<installed, open_fds, pipebuf, spawned, P, tried, a4>>

\* the call returned or raised: the caller goes on
ApiReturn ==
    /\ call.pc \in {"returned", "raised"}
    /\ call' = IdleCall
    /\ P' = NoProc
    /\ UNCHANGED <<installed, open_fds, pipebuf, spawned, sys_stderr, tried, self, ncalls, a4>>

NextApi == ApiConstruct \/ ApiCall \/ ApiReturn \/ Launch

SpecApi == InitApi /\ [][NextApi]_vars

(***************************************************************************)
(* AFourCrypt and the __main__ block.  The shell blocks in raw_input or    *)
(* getpass; each action below is one line read there, with the code that   *)
(* runs up to the next read (or up to the call of launch_gpg).  a4.pc      *)
(* names the read the shell is blocked in:                                 *)
(*   "loop"       at the top of the while loop of __main__                 *)
(*   "menu"       test_rawinput(": ", 'e', 'd', 'c', 'q')                  *)
(*   "cipher"     the raw_input of the cipher-setting mode                 *)
(*   "multiline"  get_multiline_input                                      *)
(*   "pwd1"       get_passphrase, first entry                              *)
(*   "pwd2"       get_passphrase, confirmation                             *)
(*   "launch"     inside launch_gpg                                        *)
(*   "yn"         test_rawinput("[y/n]: ", 'y', 'n')                       *)
(* and "exited" (exit() was called), "aborted" (the constructor raised)    *)
(* and "crashed" (launch_gpg raised out of load_main) end the program.     *)
(***************************************************************************)
AES256 == <<"A", "E", "S", "2", "5", "6">>
SEMI3 == <<";", ";", ";">>
END_PGP == <<"-", "-", "-", "-", "-", "E", "N", "D", " ", "P", "G", "P", " ", "M", "E", "S", "S", "A", "G", "E", "-", "-", "-", "-", "-">>

\* what the user may give: command-line arguments, and lines at each prompt
Argvs == {<<>>, <<"--nocolor">>, <<"-n">>, <<"--help">>, <<"-n", "-n">>}
MenuInputs == {"e", "d", "c", "q", "", "E"}
YesNoInputs == {"y", "n", "", "Y"}
CipherInputs == {<<>>, <<"c", "a", "s", "t", "5">>, <<"x", " ", "y">>}
Lines == {SEMI3, END_PGP, SEMI3 \o END_PGP}
Typed == {<<>>, <<"p", "w">>, <<"q">>}

\* the locals of load_main and of the functions it calls, gone when load_main
\* returns (the line read in the cipher-setting mode stays visible until
\* load_main is entered again); pwd1 and pwd2 are the entries get_passphrase
\* read last; npass counts the passphrases get_passphrase returned and
\* retries the 'y' answers given in this load_main
Locals == [mode |-> "", userinput |-> <<>>, pwd1 |-> None, pwd2 |-> None,
           passphrase |-> None, retries |-> 0, npass |-> 0]

\* answer is the last line given to test_rawinput, screen the last text
\* printed, rounds and menus the number of load_main calls and of banners
\* printed, spawned0 the number of subprocesses when load_main was entered
StartShell == [pc |-> "start", color |-> TRUE, cipher |-> None, rounds |-> 0,
               menus |-> 0, screen |-> "", answer |-> "", spawned0 |-> 0,
               l |-> Locals]

InitShell ==
    /\ installed \in SUBSET Binaries
    /\ open_fds = StdFds
    /\ pipebuf = <<>>
    /\ spawned = 0
    /\ P = NoProc
    /\ sys_stderr = <<>>
    /\ tried = <<>>
    /\ self = NoSelf
    /\ call = IdleCall
    /\ ncalls = 0
    /\ a4 = StartShell

\* the __main__ block up to the while loop: with one argument --nocolor or -n,
\* or with none, AFourCrypt is constructed, and its __init__ constructs
\* GpgInterface(show_version=False); otherwise the usage text and exit()
Main ==
    /\ a4.pc = "start"
    /\ \E argv \in Argvs :
        IF Len(argv) = 0 \/ (Len(argv) = 1 /\ argv[1] \in {"--nocolor", "-n"})
        THEN LET d == Discover(installed) IN
             /\ tried' = d.tried
             /\ self' = InitSelf(d)
             /\ sys_stderr' = InitStderr(d, FALSE)
             /\ a4' = IF d.raised
                      THEN [a4 EXCEPT !.pc = "aborted"]
                      ELSE [a4 EXCEPT !.pc = "loop", !.cipher = AES256,
                                      !.color = (Len(argv) = 0)]
        ELSE /\ a4' = [a4 EXCEPT !.pc = "exited", !.screen = "usage"]
             /\ UNCHANGED <<tried, self, sys_stderr>>
    /\ UNCHANGED <<installed, open_fds, pipebuf, spawned, P, call, ncalls>>

\* load_main is entered: the banner, then test_rawinput's first raw_input
LoadMain ==
    /\ a4.pc = "loop"
    /\ a4.rounds < MaxRounds
    /\ a4' = [a4 EXCEPT !.pc = "menu", !.rounds = @ + 1, !.menus = @ + 1,
                        !.screen = "Choose", !.spawned0 = spawned, !.l = Locals]
    /\ UNCHANGED <<installed, open_fds, pipebuf, spawned, P, sys_stderr, tried, self, call, ncalls>>

\* a variant that also takes the upper-case letters
test_rawinputAnyCase(userinput, args) == userinput \in args \cup {"E", "D", "C", "Q", "Y", "N"}

\* test_rawinput: the loop ends with an input that is one of args
test_rawinput(userinput, args) == userinput \in args

\* the branch of load_main taken for the mode chosen at the menu
ModeTarget(mode) ==
    IF mode \in {"q", "Q"} THEN "exited"
    ELSE IF mode = "c" THEN "cipher"
    ELSE "multiline"

ModeScreen(mode) ==
    IF mode \in {"q", "Q"} THEN "Choose"
    ELSE IF mode = "c" THEN "Set symmetric encryption cipher algorithm"
    ELSE IF mode = "e" THEN "Type or paste message to be encrypted."
    ELSE "Paste gpg-encrypted message to be decrypted."

MenuInput ==
    /\ a4.pc = "menu"
    /\ \E userinput \in MenuInputs :
        IF test_rawinput(userinput, {"e", "d", "c", "q"})
        THEN a4' = [a4 EXCEPT !.pc = ModeTarget(userinput),
                              !.screen = ModeScreen(userinput),
                              !.l.mode = userinput, !.answer = userinput]
        ELSE a4' = [a4 EXCEPT !.screen = "Expecting one of",
                              !.answer = userinput]
    /\ UNCHANGED <<installed, open_fds, pipebuf, spawned, P, sys_stderr, tried, self, call, ncalls>>

\* a variant that takes every line, the empty one too
SetCipherAlways(cipher, userinput) == userinput

\* the cipher-setting mode: a non-empty line becomes self.cipher
SetCipher(cipher, userinput) == IF Truthy(userinput) THEN userinput ELSE cipher

CipherInput ==
    /\ a4.pc = "cipher"
    /\ \E userinput \in CipherInputs :
        a4' = [a4 EXCEPT !.pc = "loop", !.cipher = SetCipher(a4.cipher, userinput),
                         !.screen = IF Truthy(userinput)
                                    THEN "encryption will be done with"
                                    ELSE @,
                         !.l.userinput = userinput]
    /\ UNCHANGED <<installed, open_fds, pipebuf, spawned, P, sys_stderr, tried, self, call, ncalls>>

\* get_multiline_input(EOFstr, keeplastline) as load_main calls it
EOFstr(mode) == IF mode = "e" THEN SEMI3 ELSE END_PGP

\* a variant that never keeps the last line
keeplastlineNever(mode) == FALSE

keeplastline(mode) == mode = "d"

\* the value get_multiline_input returns once the last line read is EOFstr
MultilineResult(userinput, keep) ==
    Join(IF keep THEN userinput ELSE SubSeq(userinput, 1, Len(userinput) - 1))

GetMultilineInput ==
    /\ a4.pc = "multiline"
    /\ \E line \in Lines :
        LET userinput == Append(a4.l.userinput, line) IN
        IF line # EOFstr(a4.l.mode)
        THEN /\ Len(userinput) < MaxLines
             /\ a4' = [a4 EXCEPT !.l.userinput = userinput]
             /\ UNCHANGED self
        ELSE /\ self' = [self EXCEPT !.inputdata =
                            MultilineResult(userinput, keeplastline(a4.l.mode))]
             /\ a4' = [a4 EXCEPT !.pc = "pwd1", !.l.userinput = <<>>,
                                 !.screen = "Carefully enter passphrase:"]
    /\ UNCHANGED <<installed, open_fds, pipebuf, spawned, P, sys_stderr, tried, call, ncalls>>

\* get_passphrase(confirm) as load_main calls it
confirm(mode) == mode = "e"

\* load_main calls launch_gpg with the passphrase get_passphrase returned:
\* launch_gpg('en', passphrase, cipher=self.cipher) or
\* launch_gpg('de', passphrase), the other arguments at their defaults
ShellCall(mode, passphrase, cipher) ==
    IF mode = "e" THEN NewCall("en", passphrase, None, None, "False", cipher)
    ELSE NewCall("de", passphrase, None, None, "False", aes256)

\* get_passphrase returns pwd1 and load_main calls launch_gpg
PassphraseReturned(pwd1, pwd2) ==
    /\ a4' = [a4 EXCEPT !.pc = "launch", !.l.pwd1 = pwd1, !.l.pwd2 = pwd2,
                        !.l.passphrase = pwd1, !.l.npass = @ + 1]
    /\ call' = ShellCall(a4.l.mode, pwd1, a4.cipher)
    /\ ncalls' = ncalls + 1
    /\ sys_stderr' = <<>>
    /\ P' = NoProc

\* the first entry: an empty one is asked for again
GetPassphrase1 ==
    /\ a4.pc = "pwd1"
    /\ \E pwd1 \in Typed :
        IF Len(pwd1) = 0
        THEN /\ a4' = [a4 EXCEPT !.l.pwd1 = pwd1,
                                 !.screen = "You must enter a passphrase:"]
             /\ UNCHANGED <<call, ncalls, P, sys_stderr>>
        ELSE IF confirm(a4.l.mode)
        THEN /\ a4' = [a4 EXCEPT !.pc = "pwd2", !.l.pwd1 = pwd1,
                                 !.screen = "Repeat passphrase to confirm:"]
             /\ UNCHANGED <<call, ncalls, P, sys_stderr>>
        ELSE PassphraseReturned(pwd1, a4.l.pwd2)
    /\ UNCHANGED <<installed, open_fds, pipebuf, spawned, tried, self>>

\* a variant that takes every confirmation for a match
MatchesAlways(pwd1, pwd2) == TRUE

\* if pwd1 == pwd2: return pwd1
Matches(pwd1, pwd2) == pwd1 = pwd2

\* the confirmation: a different one starts the outer loop again
GetPassphrase2 ==
    /\ a4.pc = "pwd2"
    /\ \E pwd2 \in Typed :
        IF Matches(a4.l.pwd1, pwd2)
        THEN PassphraseReturned(a4.l.pwd1, pwd2)
        ELSE /\ a4' = [a4 EXCEPT !.pc = "pwd1", !.l.pwd2 = pwd2,
                                 !.screen = "The passphrases you entered did not match!"]
             /\ UNCHANGED <<call, ncalls, P, sys_stderr>>
    /\ UNCHANGED <<installed, open_fds, pipebuf, spawned, tried, self>>

\* where load_main goes when launch_gpg has returned retval: encryption
\* prints and returns; decryption prints and returns on success, and asks
\* whether to try again otherwise
AfterLaunch(mode, retval) ==
    IF mode = "e" THEN "loop"
    ELSE IF retval THEN "loop"
    ELSE "yn"

LaunchScreen(mode, retval) ==
    IF mode = "e"
    THEN IF retval THEN "Encrypted message follows:"
         ELSE "Choose a different one."
    ELSE IF retval THEN "Decrypted message follows:"
    ELSE "Error in decryption process!"

\* launch_gpg returned to load_main, or raised through it and the while loop
LaunchDone ==
    /\ a4.pc = "launch"
    /\ call.pc \in {"returned", "raised"}
    /\ IF call.pc = "raised"
       THEN /\ a4' = [a4 EXCEPT !.pc = "crashed"]
            /\ UNCHANGED <<call, P>>
       ELSE /\ a4' = [a4 EXCEPT !.pc = AfterLaunch(a4.l.mode, call.retval),
                                !.screen = LaunchScreen(a4.l.mode, call.retval),
                                !.l = IF AfterLaunch(a4.l.mode, call.retval) = "loop"
                                      THEN Locals ELSE @]
            /\ call' = IdleCall
            /\ P' = NoProc
    /\ UNCHANGED <<installed, open_fds, pipebuf, spawned, sys_stderr, tried, self, ncalls>>

\* a variant that asks for the message again after 'y'
AfterTryAgainRecollect(tryagain) == IF tryagain = "n" THEN "loop" ELSE "multiline"

\* the answer to "[y/n]: ": 'n' leaves the loop, 'y' asks for a passphrase
AfterTryAgain(tryagain) == IF tryagain = "n" THEN "loop" ELSE "pwd1"

TryAgainInput ==
    /\ a4.pc = "yn"
    /\ \E userinput \in YesNoInputs :
        IF test_rawinput(userinput, {"y", "n"})
        THEN /\ userinput = "y" => a4.l.retries < MaxRetries
             /\ a4' = [a4 EXCEPT !.pc = AfterTryAgain(userinput),
                                 !.answer = userinput,
                                 !.screen = IF userinput = "y"
                                            THEN "Carefully enter passphrase:"
                                            ELSE @,
                                 !.l = IF AfterTryAgain(userinput) = "loop"
                                       THEN Locals
                                       ELSE [@ EXCEPT !.retries = @ + 1]]
        ELSE a4' = [a4 EXCEPT !.screen = "Expecting one of",
                              !.answer = userinput]
    /\ UNCHANGED <<installed, open_fds, pipebuf, spawned, P, sys_stderr, tried, self, call, ncalls>>

NextShell ==
    \/ Main
    \/ LoadMain
    \/ MenuInput
    \/ CipherInput
    \/ GetMultilineInput
    \/ GetPassphrase1
    \/ GetPassphrase2
    \/ LaunchDone
    \/ TryAgainInput
    \/ Launch

SpecShell == InitShell /\ [][NextShell]_vars

(***************************************************************************)
(* Tokens of the engine's command line.                                    *)
(***************************************************************************)
Contains(t, p) ==
    \E i \in 1..(Len(t) - Len(p) + 1) : SubSeq(t, i, i + Len(p) - 1) = p

HasToken(argv, tok) == \E i \in 1..Len(argv) : argv[i] = tok

Followed(argv, tok, nxt) ==
    \E i \in 1..(Len(argv) - 1) : argv[i] = tok /\ argv[i + 1] = nxt

T_batch == <<"-", "-", "b", "a", "t", "c", "h">>
T_notty == <<"-", "-", "n", "o", "-", "t", "t", "y">>
T_yes == <<"-", "-", "y", "e", "s">>
T_noagent == <<"-", "-", "n", "o", "-", "u", "s", "e", "-", "a", "g", "e", "n", "t">>
T_symmetric == <<"-", "-", "s", "y", "m", "m", "e", "t", "r", "i", "c">>
T_forcemdc == <<"-", "-", "f", "o", "r", "c", "e", "-", "m", "d", "c">>
T_cipheralgo == <<"-", "-", "c", "i", "p", "h", "e", "r", "-", "a", "l", "g", "o">>
T_passfd == <<"-", "-", "p", "a", "s", "s", "p", "h", "r", "a", "s", "e", "-", "f", "d">>
T_a == <<"-", "a">>
T_d == <<"-", "d">>

(***************************************************************************)
(* An engine that encrypts and decrypts faithfully, and a program that     *)
(* encrypts some input with launch_gpg and then decrypts what it got.  The *)
(* engine takes its mode and cipher from its arguments, the passphrase     *)
(* from the descriptor named after --passphrase-fd (which it must have     *)
(* inherited) and the text from its standard input.  A ciphertext is the   *)
(* cipher, the passphrase and the text, with a mark before each that       *)
(* occurs in no cipher and no passphrase.                                  *)
(***************************************************************************)
cast5 == <<"c", "a", "s", "t", "5">>
SupportedCiphers == {aes256, AES256, cast5}

Encrypt(cipher, passphrase, text) ==
    <<"|">> \o cipher \o <<"|">> \o passphrase \o <<"|">> \o text

\* the position of the n-th mark in data, or 0
Mark(data, n) ==
    LET at == {i \in 1..Len(data) :
                 /\ data[i] = "|"
                 /\ Cardinality({j \in 1..i : data[j] = "|"}) = n}
    IN IF at = {} THEN 0 ELSE CHOOSE i \in at : TRUE

EngineFail == [returncode |-> 2, out |-> <<>>, err |-> <<"f", "a", "i", "l">>]

\* the token after the first token equal to tok, or None
After(argv, tok) ==
    LET at == {i \in 1..(Len(argv) - 1) : argv[i] = tok}
    IN IF at = {} THEN None
       ELSE argv[(CHOOSE i \in at : \A j \in at : i <= j) + 1]

FaithfulEngine(argv, fds, pipefd, pipedata, stdin) ==
    LET passphrase == IF After(argv, T_passfd) = Str(pipefd) /\ pipefd \in fds
                      THEN pipedata ELSE None
    IN IF passphrase = None \/ stdin = None THEN EngineFail
       ELSE IF HasToken(argv, T_symmetric)
       THEN IF After(argv, T_cipheralgo) \in SupportedCiphers
            THEN [returncode |-> 0, err |-> <<>>,
                  out |-> Encrypt(After(argv, T_cipheralgo), passphrase, stdin)]
            ELSE EngineFail
       ELSE IF HasToken(argv, T_d) /\ Mark(stdin, 1) = 1 /\ Mark(stdin, 3) > 0
       THEN IF SubSeq(stdin, Mark(stdin, 2) + 1, Mark(stdin, 3) - 1) = passphrase
            THEN [returncode |-> 0, err |-> <<>>,
                  out |-> SubSeq(stdin, Mark(stdin, 3) + 1, Len(stdin))]
            ELSE EngineFail
       ELSE EngineFail

\* self.stdout, self.stderr = P.communicate(input=self.inputdata) with the
\* faithful engine
FaithfulCommunicate ==
    /\ call.pc = "communicate"
    /\ LET stdin == IF Truthy(call.in_file) THEN None ELSE self.inputdata
           o == FaithfulEngine(P.argv, P.fds, call.fd_in, P.pass, stdin) IN
        /\ P' = [P EXCEPT !.exited = TRUE, !.returncode = o.returncode,
                          !.out = o.out, !.err = o.err, !.stdin = stdin]
        /\ self' = [self EXCEPT !.stdout = o.out, !.stderr = o.err]
    /\ call' = [call EXCEPT !.pc = "finish"]
    /\ UNCHANGED <<installed, open_fds, pipebuf, spawned, sys_stderr, tried, ncalls, a4>>

RtInputs == {<<"m">>, <<"a", "|", "\n", "b">>}
RtPassphrases == {<<"p", "w">>, <<"q">>, LongPassphrase}

\* the program has not called yet
RtStart == [pc |-> "rt", phase |-> "start", input |-> None, passphrase |-> None,
            cipher |-> None, en_ok |-> FALSE, de_ok |-> FALSE]

InitRoundTrip ==
    /\ installed \in SUBSET Binaries
    /\ open_fds = StdFds
    /\ pipebuf = <<>>
    /\ spawned = 0
    /\ P = NoProc
    /\ sys_stderr = <<>>
    /\ tried = <<>>
    /\ self = NoSelf
    /\ call = IdleCall
    /\ ncalls = 0
    /\ a4 = RtStart

\* gpgif.inputdata = input; gpgif.launch_gpg('en', passphrase, cipher=cipher)
RtEncrypt ==
    /\ self.gpg # None
    /\ a4.phase = "start"
    /\ \E input \in RtInputs, passphrase \in RtPassphrases, cipher \in SupportedCiphers :
        /\ self' = [self EXCEPT !.inputdata = input]
        /\ call' = NewCall("en", passphrase, None, None, "False", cipher)
        /\ a4' = [a4 EXCEPT !.phase = "en", !.input = input,
                            !.passphrase = passphrase, !.cipher = cipher]
    /\ ncalls' = ncalls + 1
    /\ sys_stderr' = <<>>
    /\ UNCHANGED <<installed, open_fds, pipebuf, spawned, P, tried>>

\* gpgif.inputdata = gpgif.stdout; gpgif.launch_gpg('de', passphrase)
RtDecrypt ==
    /\ a4.phase = "en"
    /\ call.pc = "returned"
    /\ self' = [self EXCEPT !.inputdata = self.stdout]
    /\ call' = NewCall("de", a4.passphrase, None, None, "False", aes256)
    /\ a4' = [a4 EXCEPT !.phase = "de", !.en_ok = call.retval]
    /\ ncalls' = ncalls + 1
    /\ sys_stderr' = <<>>
    /\ P' = NoProc
    /\ UNCHANGED <<installed, open_fds, pipebuf, spawned, tried>>

RtDone ==
    /\ a4.phase = "de"
    /\ call.pc = "returned"
    /\ a4' = [a4 EXCEPT !.phase = "done", !.de_ok = call.retval]
    /\ call' = IdleCall
    /\ UNCHANGED <<installed, open_fds, pipebuf, spawned, P, sys_stderr, tried, self, ncalls>>

NextRoundTrip ==
    \/ ApiConstruct
    \/ RtEncrypt
    \/ RtDecrypt
    \/ RtDone
    \/ LaunchValidate
    \/ LaunchPipe
    \/ LaunchWrite
    \/ LaunchCmd
    \/ LaunchPopen
    \/ FaithfulCommunicate
    \/ LaunchFinish

\* the program and the engine go on whenever they can
SpecRoundTrip == InitRoundTrip /\ [][NextRoundTrip]_vars /\ WF_vars(NextRoundTrip)

(***************************************************************************)
(* Properties of launch_gpg, checked under SpecApi.                        *)
(***************************************************************************)
\* the request of the current call is invalid: a mode other than 'en'/'de',
\* in_file without out_file, in_file equal to out_file, or no in_file and
\* no input saved
InvalidRequest ==
    \/ call.mode \notin {"en", "de"}
    \/ Truthy(call.in_file) /\ ~Truthy(call.out_file)
    \/ Truthy(call.in_file) /\ call.in_file = call.out_file
    \/ ~Truthy(call.in_file) /\ ~Truthy(self.inputdata)

\* C1: a call whose request is invalid raises one of the request errors
\* before a pipe is created and before a subprocess is spawned: the open
\* descriptors and the number of subprocesses are those at entry.
C1_InvalidRequestRaisesEarly ==
    (call.pc \notin {"idle", "validate"} /\ InvalidRequest) =>
        /\ call.pc = "raised"
        /\ call.exc \in BadRequest
        /\ call.fd_in = -1 /\ call.fd_out = -1
        /\ open_fds = call.fds0
        /\ spawned = call.spawned0
        /\ ~P.started

C1_Witness ==
    /\ call.pc = "raised" /\ call.exc = SameFile
    /\ spawned = 1 /\ spawned = call.spawned0

\* C2 as stated: in every spawned argument list no token contains the text
\* of the passphrase.
C2_NoPassphraseTextInArgv ==
    P.started => \A i \in 1..Len(P.argv) : ~Contains(P.argv[i], call.passphrase)

\* C2 amended: the argument list is the one the call builds for any other
\* passphrase (so a token holds the passphrase text only where the engine
\* prefix, the flags, the cipher, the descriptor number or a path already
\* hold it), the pipe holds exactly the passphrase, the child inherits the
\* pipe's read descriptor, and the command names that descriptor after
\* --passphrase-fd.
C2_ArgvIndependentOfPassphrase ==
    P.started =>
        /\ \A p \in Passphrases :
             split(Cmd(self.gpg, call.mode, p, call.in_file, call.out_file,
                       call.binarymode, call.cipher, call.fd_in)) = <<"ok", P.argv>>
        /\ P.pass = call.passphrase
        /\ call.fd_in \in P.fds /\ call.fd_out \notin P.fds
        /\ Contains(call.cmd \o <<" ">>, EN_PASSFD \o Str(call.fd_in) \o <<" ">>)

C2_Witness ==
    /\ P.started /\ call.mode = "en"
    /\ call.passphrase = call.cipher
    /\ HasToken(P.argv, call.passphrase)

\* C3: a call that spawned the engine does not raise, and it returns true
\* exactly when the exit code is 0, with the engine's stdout and stderr
\* stored on the interface.
C3_RetvalIffExitZero ==
    /\ P.started => call.pc # "raised"
    /\ call.pc = "returned" =>
        /\ P.exited
        /\ call.retval = (P.returncode = 0)
        /\ self.stdout = P.out /\ self.stderr = P.err

C3_Witness ==
    /\ call.pc = "returned" /\ P.returncode = 2 /\ ~call.retval
    /\ self.stderr = <<"f", "a", "i", "l">>

\* C4: a call whose engine ran to exit has written the engine's stderr,
\* unmodified, to sys.stderr when it returns, whatever the exit code.
C4_StderrAlwaysWritten ==
    call.pc = "returned" =>
        /\ Len(sys_stderr) = 1
        /\ sys_stderr[1] = P.err

C4_Witness ==
    /\ call.pc = "returned" /\ P.returncode = 0 /\ call.retval
    /\ P.err = <<"w", "a", "r", "n">>

\* C5: when a call that created the pipe has returned or raised, both ends
\* of the pipe are closed.
C5_PipeClosedOnEveryExit ==
    (call.pc \in {"returned", "raised"} /\ call.fd_in # -1) =>
        /\ call.fd_in \notin open_fds
        /\ call.fd_out \notin open_fds

\* C6: every engine invocation carries --batch, --no-tty, --no-use-agent,
\* --yes and --passphrase-fd followed by the read descriptor of this call.
C6_CommonFlags ==
    P.started =>
        /\ HasToken(P.argv, T_batch)
        /\ HasToken(P.argv, T_notty)
        /\ HasToken(P.argv, T_noagent)
        /\ HasToken(P.argv, T_yes)
        /\ Followed(P.argv, T_passfd, Str(call.fd_in))

\* C7: an encryption carries --symmetric, --force-mdc and --cipher-algo
\* followed by the cipher, and -a exactly when not both in_file is given and
\* binarymode is true; a decryption carries -d and none of --symmetric,
\* --cipher-algo and -a.
C7_ModeFlags ==
    P.started =>
        IF call.mode = "en"
        THEN /\ HasToken(P.argv, T_symmetric)
             /\ HasToken(P.argv, T_forcemdc)
             /\ Followed(P.argv, T_cipheralgo, call.cipher)
             /\ HasToken(P.argv, T_a) <=>
                    ~(Truthy(call.in_file) /\ call.binarymode = "True")
        ELSE /\ HasToken(P.argv, T_d)
             /\ ~HasToken(P.argv, T_symmetric)
             /\ ~HasToken(P.argv, T_cipheralgo)
             /\ ~HasToken(P.argv, T_a)

\* C17: the pipe of a call exists only when its request passed validation;
\* when the subprocess is spawned the pipe holds the whole passphrase and
\* the write end is closed, in this process and in the child; the read end
\* is open from the spawn until the subprocess has exited; it is closed only
\* by the step that returns, after that exit.
C17_ChannelOrder ==
    /\ [](/\ call.fd_in # -1 =>
               SanityCheck(call.mode, call.in_file, call.out_file,
                           call.binarymode, self.inputdata) = "ok"
          /\ P.started =>
               /\ P.pass = call.passphrase
               /\ ~P.exited => pipebuf = call.passphrase
               /\ call.fd_out \notin open_fds /\ call.fd_out \notin P.fds
               /\ call.fd_in \in P.fds
          /\ (P.started /\ ~P.exited) => call.fd_in \in open_fds
          /\ call.pc = "returned" => (P.exited /\ call.fd_in \notin open_fds))
    /\ [][/\ (call.pc = "validate" /\ call'.pc = "raised") => open_fds' = open_fds
          /\ (call.fd_in \in open_fds /\ call.fd_in \notin open_fds')
               => (P.exited /\ call'.pc = "returned")
          /\ (~P.started /\ P'.started) => open_fds' = open_fds
       ]_vars

C17_Witness ==
    /\ call.pc = "communicate" /\ P.started /\ ~P.exited
    /\ call.fd_in = 4 /\ open_fds = {0, 1, 2, 3, 4}
    /\ P.pass = aes256

\* C18: in the argument list of every subprocess spawned, an encryption has
\* the cipher of the call as the one token between --cipher-algo and
\* --passphrase-fd, and a call with file paths has -o, out_file, in_file as
\* its last three tokens.
C18_CipherAndPathsAreTokens ==
    P.started =>
        /\ call.mode = "en" =>
               \E i \in 1..(Len(P.argv) - 2) :
                   /\ P.argv[i] = T_cipheralgo
                   /\ P.argv[i + 1] = call.cipher
                   /\ P.argv[i + 2] = T_passfd
        /\ Truthy(call.in_file) =>
               /\ Len(P.argv) >= 3
               /\ SubSeq(P.argv, Len(P.argv) - 2, Len(P.argv))
                      = <<<<"-", "o">>, call.out_file, call.in_file>>

(***************************************************************************)
(* Properties of the shell, checked under SpecShell.                       *)
(***************************************************************************)

\* C8: discovery tries gpg first and gpg2 only when gpg could not be
\* started; when gpg starts it is the engine recorded and gpg2 is not run;
\* when neither starts the constructor raises and the program ends without
\* a menu shown or load_main entered.
C8_EngineDiscovery ==
    /\ a4.pc = "start" => tried = <<>>
    /\ tried # <<>> =>
        /\ tried[1] = "gpg"
        /\ Len(tried) > 1 => (tried = <<"gpg", "gpg2">> /\ "gpg" \notin installed)
        /\ "gpg" \in installed => (tried = <<"gpg">> /\ self.gpg = GPG_PRIMARY)
        /\ installed = {} =>
            /\ a4.pc = "aborted" /\ self.gpg = None
            /\ a4.menus = 0 /\ a4.rounds = 0 /\ a4.screen = ""
    /\ a4.menus > 0 => self.gpg # None

C8_Witness ==
    /\ a4.pc = "aborted" /\ tried = <<"gpg", "gpg2">>
    /\ sys_stderr = <<NotFoundMsg>>

\* C9: no call the shell makes to launch_gpg raises a request error.
C9_NoBadRequestFromShell ==
    ~(a4.pc \in {"launch", "crashed"} /\ call.pc = "raised" /\ call.exc \in BadRequest)

\* the decrypt flow from the first passphrase prompt on
DecryptFlow == a4.l.mode = "d" /\ a4.pc \in {"pwd1", "launch", "yn"}

\* engine subprocesses started since load_main was entered
Invocations == spawned - a4.spawned0

\* C10: in the decrypt flow a failed decryption leads to the retry prompt;
\* 'y' leads to one passphrase prompt and 'n' back to the loop of __main__;
\* the message is neither changed nor collected again; the flow is left only
\* after a successful invocation or the answer 'n'; and every passphrase
\* collected is passed to exactly one engine invocation.
C10_DecryptRetry ==
    /\ [](a4.l.mode = "d" =>
            /\ a4.pc \in {"pwd1", "yn"} => Invocations = a4.l.npass
            /\ a4.pc = "launch" =>
                /\ Invocations = a4.l.npass - (IF P.started THEN 0 ELSE 1)
                /\ call.mode = "de" /\ call.passphrase = a4.l.passphrase
                /\ call.pc # "raised")
    /\ [][DecryptFlow =>
            /\ self.inputdata' = self.inputdata
            /\ a4'.pc # "multiline"
            /\ (a4.pc = "launch" /\ call.pc = "returned" /\ ~call.retval)
                   => a4'.pc = "yn"
            /\ (a4.pc = "yn" /\ a4'.pc # "yn") =>
                   \/ a4'.answer = "y" /\ a4'.pc = "pwd1" /\ a4'.l.npass = a4.l.npass
                   \/ a4'.answer = "n" /\ a4'.pc = "loop"
            /\ a4'.pc \notin {"pwd1", "launch", "yn"} =>
                   /\ a4'.pc = "loop"
                   /\ spawned' - a4'.spawned0 = a4.l.npass
                   /\ \/ a4.pc = "launch" /\ call.pc = "returned" /\ call.retval
                      \/ a4.pc = "yn" /\ a4'.answer = "n"
       ]_vars

C10_Witness ==
    /\ a4.l.mode = "d" /\ a4.pc = "launch" /\ a4.l.retries = 1
    /\ call.pc = "returned" /\ call.retval
    /\ a4.l.npass = 2 /\ Invocations = 2

\* C11: the cipher preference is 'AES256' when the shell has been constructed;
\* the cipher-setting mode sets it to the line entered when that line is not
\* empty and leaves it alone otherwise; no other step changes it; an
\* encryption call gets the preference of that moment as its cipher; a
\* decryption call gets the default cipher, and its argument list is the one
\* it would be under any other preference.
C11_CipherPreference ==
    /\ [](a4.pc = "launch" =>
            IF a4.l.mode = "e"
            THEN call.mode = "en" /\ call.cipher = a4.cipher
            ELSE /\ call.mode = "de" /\ call.cipher = aes256
                 /\ call.pc = "communicate" =>
                     /\ ~HasToken(P.argv, T_cipheralgo)
                     /\ \A c \in CipherInputs \cup {AES256} :
                          split(Cmd(self.gpg, "de", call.passphrase, None, None,
                                    "False", c, call.fd_in)) = <<"ok", P.argv>>)
    /\ [][/\ (a4.pc = "start" /\ a4'.pc = "loop") => a4'.cipher = AES256
          /\ a4.pc = "cipher" =>
                a4'.cipher = (IF a4'.l.userinput # <<>> THEN a4'.l.userinput
                              ELSE a4.cipher)
          /\ a4.pc \notin {"start", "cipher"} => a4'.cipher = a4.cipher
       ]_vars

C11_Witness ==
    /\ a4.pc = "launch" /\ a4.l.mode = "e" /\ P.started
    /\ a4.cipher = <<"c", "a", "s", "t", "5">>
    /\ Followed(P.argv, T_cipheralgo, a4.cipher)

\* C12: the passphrase of every call the shell makes is not empty and is the
\* one the engine reads from the pipe; for encryption it is a non-empty first
\* entry whose confirmation, read next, was identical; an empty first entry
\* is asked for again, and a different confirmation leads back to the first
\* entry; for decryption it is the first non-empty entry, and no
\* confirmation is read.
C12_PassphraseCollection ==
    /\ [](/\ a4.pc = "launch" =>
              /\ Len(call.passphrase) > 0 /\ call.passphrase = a4.l.pwd1
              /\ a4.l.mode = "e" => a4.l.pwd2 = a4.l.pwd1
              /\ a4.l.mode = "d" => a4.l.pwd2 = None
              /\ P.started => P.pass = call.passphrase
          /\ a4.pc = "pwd2" => (a4.l.mode = "e" /\ Len(a4.l.pwd1) > 0))
    /\ [][/\ a4.pc = "pwd1" =>
              \/ a4'.pc = "pwd1" /\ a4'.l.pwd1 = <<>> /\ call' = call
              \/ a4'.pc = "pwd2" /\ a4.l.mode = "e" /\ call' = call
              \/ a4'.pc = "launch" /\ a4.l.mode = "d"
          /\ a4.pc = "pwd2" =>
              \/ a4'.pc = "launch" /\ a4'.l.pwd1 = a4.l.pwd1
              \/ /\ a4'.pc = "pwd1" /\ a4'.l.pwd2 # a4.l.pwd1 /\ call' = call
                 /\ a4'.screen = "The passphrases you entered did not match!"
          /\ a4'.pc = "launch" => a4.pc \in {"pwd1", "pwd2", "launch"}
       ]_vars

C12_Witness ==
    /\ a4.pc = "launch" /\ a4.l.mode = "e" /\ P.started
    /\ a4.screen = "Repeat passphrase to confirm:"
    /\ a4.l.pwd1 = <<"p", "w">> /\ a4.l.pwd2 = <<"p", "w">>
    /\ P.pass = <<"p", "w">>

\* the step read a line at a test_rawinput prompt, printed msg and the prompt
\* again, and did nothing else
Reprompted(msg) ==
    /\ a4' = [a4 EXCEPT !.screen = msg, !.answer = a4'.answer]
    /\ UNCHANGED <<installed, open_fds, pipebuf, spawned, P, sys_stderr, tried,
                   self, call, ncalls>>

\* C13 as stated: a line at the menu that is not one of 'e', 'd', 'c', 'q',
\* and a line at the retry prompt that is not one of 'y', 'n', is answered
\* with a "must be one of" message and changes nothing else.
C13_MustBeOneOfMessage ==
    [][/\ (a4.pc = "menu" /\ a4'.answer \notin {"e", "d", "c", "q"})
            => Reprompted("must be one of")
       /\ (a4.pc = "yn" /\ a4'.answer \notin {"y", "n"})
            => Reprompted("must be one of")
      ]_vars

\* C13 amended: such a line is answered with the message "Expecting one of"
\* followed by the accepted choices and the prompt; the shell stays at the
\* prompt, and the message, the passphrase entries, the cipher preference,
\* the engine and the descriptors are as before.
C13_UnrecognizedInputReprompts ==
    [][/\ (a4.pc = "menu" /\ a4'.answer \notin {"e", "d", "c", "q"})
            => Reprompted("Expecting one of")
       /\ (a4.pc = "yn" /\ a4'.answer \notin {"y", "n"})
            => Reprompted("Expecting one of")
      ]_vars

C13_Witness ==
    /\ a4.pc = "menu" /\ a4.answer = "E" /\ a4.screen = "Expecting one of"
    /\ a4.rounds = 2 /\ a4.l = Locals

\* the number of characters before line i in the lines joined by newlines
RECURSIVE Before(_, _)
Before(lines, i) ==
    IF i = 1 THEN 0 ELSE Before(lines, i - 1) + Len(lines[i - 1]) + 1

\* data is the lines in order, one newline between two lines
IsJoined(data, lines) ==
    /\ Len(data) = (IF lines = <<>> THEN 0 ELSE Before(lines, Len(lines) + 1) - 1)
    /\ \A i \in 1..Len(lines) :
        LET b == Before(lines, i) IN
        /\ SubSeq(data, b + 1, b + Len(lines[i])) = lines[i]
        /\ i < Len(lines) => data[b + Len(lines[i]) + 1] = "\n"

\* C14: while a message is collected no line read so far is the sentinel
\* (';;;' for encryption, the PGP end marker for decryption); a line that is
\* not the sentinel is added to the lines and collection goes on; the
\* sentinel ends collection, the next line read is a passphrase entry, and
\* the message saved is the lines read before the sentinel joined by
\* newlines, with the sentinel as the last line for decryption only.
C14_MessageCollection ==
    /\ [](a4.pc = "multiline" =>
            \A i \in 1..Len(a4.l.userinput) : a4.l.userinput[i] # EOFstr(a4.l.mode))
    /\ [][a4.pc = "multiline" =>
            \/ UNCHANGED vars
            \/ /\ a4'.pc = "multiline" /\ self' = self
               /\ Len(a4'.l.userinput) = Len(a4.l.userinput) + 1
               /\ SubSeq(a4'.l.userinput, 1, Len(a4.l.userinput)) = a4.l.userinput
            \/ /\ a4'.pc = "pwd1"
               /\ IsJoined(self'.inputdata,
                           IF a4.l.mode = "e" THEN a4.l.userinput
                           ELSE Append(a4.l.userinput, END_PGP))
       ]_vars

C14_Witness ==
    /\ a4.pc = "pwd1" /\ a4.l.mode = "d" /\ a4.l.npass = 0
    /\ self.inputdata = SEMI3 \o END_PGP \o <<"\n">> \o END_PGP

\* C16: in a session the program ends only by the choice 'q' at the menu;
\* the cipher-setting mode, an encryption that returned (true or false), a
\* decryption that returned true and the answer 'n' at the retry prompt lead
\* back to the loop of __main__, whose next step prints the menu and
\* prompts for a choice.
C16_MenuLoop ==
    [][/\ (a4.pc # "start" /\ a4'.pc # a4.pc
            /\ a4'.pc \in {"exited", "crashed", "aborted"})
           => (a4.pc = "menu" /\ a4'.answer = "q" /\ a4'.pc = "exited")
       /\ (a4.pc = "menu" /\ a4'.pc # "menu" /\ a4'.answer = "q")
           => a4'.pc = "exited"
       /\ (a4.pc = "cipher" /\ a4' # a4) => a4'.pc = "loop"
       /\ (a4.pc = "launch" /\ a4'.pc # "launch") =>
              a4'.pc = (IF a4.l.mode = "d" /\ ~call.retval THEN "yn" ELSE "loop")
       /\ (a4.pc = "yn" /\ a4'.pc # "yn" /\ a4'.answer = "n") => a4'.pc = "loop"
       /\ (a4.pc = "loop" /\ a4'.pc # "loop") =>
              /\ a4'.pc = "menu" /\ a4'.screen = "Choose"
              /\ a4'.menus = a4.menus + 1
      ]_vars

(***************************************************************************)
(* The round trip, checked under SpecRoundTrip.                            *)
(***************************************************************************)

\* C15: with the faithful engine, an encryption of a non-empty input under a
\* non-empty passphrase and a supported cipher, followed by a decryption of
\* its output under the same passphrase, succeeds both times and ends with
\* the original input in stdout.
C15_RoundTrip ==
    [](a4.phase = "en" =>
         <>(/\ a4.phase = "done" /\ a4.en_ok /\ a4.de_ok
            /\ self.stdout = a4.input))

\* C19: a call whose request passed validation eventually ends, the engine
\* exiting whenever it was started; in particular the write of the
\* passphrase into the pipe completes whatever the length of the passphrase.
C19_ValidCallEnds ==
    /\ (call.pc = "pipe") ~> (call.pc \in {"returned", "raised"})
    /\ (call.pc = "write") ~> (call.pc = "cmd")

=============================================================================
